---- MODULE Spec2Model ----
(***************************************************************************)
(* State-machine model of src/main.py (Book Worm AI backend): the SQLite  *)
(* tables users, sessions, subscriptions, messages, canon_entries and     *)
(* analytics_events, the wall clock, the environment configuration, and   *)
(* one action per HTTP handler.  Every handler is one atomic step, except *)
(* under SpecConcurrent, where a protected request takes two steps; the   *)
(* variable resp holds the request and the response of the last step.     *)
(* Time is counted in days.  Strings the code transforms (strip, lower)   *)
(* are sequences of one-character strings, so the transformations are     *)
(* computed; strings the code only compares are TLA+ strings.             *)
(***************************************************************************)
EXTENDS Integers, Sequences, FiniteSets, TLC

VARIABLES
    users,          \* table users: sequence of rows, id = position (AUTOINCREMENT, no DELETE)
    sessions,       \* table sessions: set of rows (rows are deleted on logout / expiry)
    nextSession,    \* next AUTOINCREMENT id of sessions = next fresh token
    subscriptions,  \* table subscriptions: sequence of rows, id = position (no DELETE)
    messages,       \* table messages: sequence of rows, id = position
    canon_entries,  \* table canon_entries: sequence of rows
    analytics_events, \* table analytics_events: sequence of rows
    now,            \* now_utc(), in days
    cfg,            \* environment configuration read at process start
    resp,           \* request and response of the last handler run
    registered,     \* history: the raw (email, password) of each successful registration
    inflight        \* requests whose identity is resolved and whose handler has not run yet

vars == <<users, sessions, nextSession, subscriptions, messages, canon_entries,
          analytics_events, now, cfg, resp, registered, inflight>>

tables == <<users, sessions, subscriptions, messages, canon_entries, analytics_events>>

-----------------------------------------------------------------------------
(* Bounds of the model *)

MaxUsers == 2          \* rows of users
MaxSessions == 2       \* session tokens ever issued
MaxSubs == 2           \* rows of subscriptions
MaxMessages == 2       \* rows of messages
MaxCanon == 1          \* rows of canon_entries

(* Program constants *)

SESSION_TTL_DAYS == 30
TRIAL_DAYS == 30
MIN_PASSWORD_LEN == 6

HISTORY_LIMIT == 18

STRIPE_BASIC_PRICE_ID == "price_basic"
STRIPE_PRO_PRICE_ID == "price_pro"
STRIPE_PATRON_PRICE_ID == "price_patron"

-----------------------------------------------------------------------------
(* str.strip() and str.lower() on sequences of characters *)

IsSpace(c) == c = " "

RECURSIVE LStrip(_)
LStrip(s) == IF s # <<>> /\ IsSpace(Head(s)) THEN LStrip(Tail(s)) ELSE s

RECURSIVE RStrip(_)
RStrip(s) == IF s # <<>> /\ IsSpace(s[Len(s)]) THEN RStrip(SubSeq(s, 1, Len(s) - 1)) ELSE s

Strip(s) == RStrip(LStrip(s))

LowerChar(c) ==
    CASE c = "U" -> "u"
      [] c = "V" -> "v"
      [] c = "X" -> "x"
      [] OTHER -> c

(* str.lower() left out *)
LowerKeepsCase(s) == s

Lower(s) == [i \in 1..Len(s) |-> LowerChar(s[i])]

(* str.lower() on the status words the code lower-cases *)
LowerWord(w) ==
    CASE w = "ACTIVE" -> "active"
      [] w = "Trialing" -> "trialing"
      [] w = "Pro" -> "pro"
      [] OTHER -> w

-----------------------------------------------------------------------------
(* Configuration (module-level globals of main.py, read once at start) *)

(* scan is the order in which SQLite visits the rows of a query that has  *)
(* no ORDER BY: "first" is rowid order (the tables of apply_min_schema     *)
(* have no index on the columns the webhook searches), "last" the reverse  *)
(* (an index of db/schema.sql could give another order).  It is fixed for  *)
(* the life of the database.                                               *)
FullConfig ==
    [owner_code |-> "letmein", openai |-> TRUE, stripe |-> TRUE, webhook_secret |-> "whsec",
     scan |-> "first"]

stripe_configured == cfg.stripe

-----------------------------------------------------------------------------
(* Password hashing.  The PBKDF2-HMAC-SHA256 digest is a symbolic term of  *)
(* the password and the salt: equal digests iff equal inputs.              *)

pbkdf2_hash_salt_only(password, salt) == <<"pbkdf2", <<>>, salt>>

pbkdf2_hash(password, salt) == <<"pbkdf2", password, salt>>

(* a comparison that accepts every code *)
compare_digest_any(a, b) == TRUE

(* hmac.compare_digest *)
compare_digest(a, b) == a = b

-----------------------------------------------------------------------------
(* Table helpers *)

UserIds == 1..Len(users)

UserByEmail(email) == {u \in UserIds : users[u].email = email}

SessionByToken(tok) == {s \in sessions : s.token = tok}

NoToken == 0

Resp0 ==
    [op |-> "init", status |-> 0, tok |-> NoToken, uid |-> 0, detail |-> "",
     cookie |-> NoToken, arg |-> <<>>, auth |-> ""]

Reply(op, status, tok, uid, detail, cookie, arg) ==
    [op |-> op, status |-> status, tok |-> tok, uid |-> uid, detail |-> detail,
     cookie |-> cookie, arg |-> arg, auth |-> ""]

(* the reply of a handler that ran get_current_user with outcome r *)
AuthReply(op, status, tok, r, detail, arg) ==
    [op |-> op, status |-> status, tok |-> tok, uid |-> r.uid, detail |-> detail,
     cookie |-> NoToken, arg |-> arg, auth |-> r.kind]

-----------------------------------------------------------------------------
(* get_current_user: the outcome for a request carrying cookie tok.        *)
(* kind: "none" (no cookie), "unknown" (no row), "expired" (row deleted),  *)
(* "nouser", or "ok" with the user id.                                     *)

SessionExpiredAtExpiry(s) == s.expires_at <= now

(* the expiry test left out *)
SessionNeverExpires(s) == FALSE

SessionExpired(s) == s.expires_at < now

get_current_user(tok) ==
    IF tok = NoToken THEN [kind |-> "none", uid |-> 0, detail |-> "Not logged in"]
    ELSE IF SessionByToken(tok) = {} THEN
        [kind |-> "unknown", uid |-> 0, detail |-> "Session expired. Please log in again."]
    ELSE LET s == CHOOSE x \in SessionByToken(tok) : TRUE IN
        IF SessionExpired(s) THEN
            [kind |-> "expired", uid |-> 0, detail |-> "Session expired. Please log in again."]
        ELSE IF s.user_id \notin UserIds THEN
            [kind |-> "nouser", uid |-> 0, detail |-> "User not found"]
        ELSE [kind |-> "ok", uid |-> s.user_id, detail |-> ""]

(* the sessions table left as it is: the expired row is not deleted *)
SessionsKept(tok) == sessions

(* the sessions table after get_current_user (lazy eviction of the expired row) *)
SessionsAfterResolve(tok) ==
    {s \in sessions : ~(s.token = tok /\ tok # NoToken /\ SessionExpired(s))}

(* the owner flag of the user row instead of the session row *)
is_owner_session_of_user(tok) ==
    /\ tok # NoToken
    /\ \E x \in SessionByToken(tok) : x.user_id \in UserIds /\ users[x.user_id].is_owner = 1

(* every session counts as an owner session *)
is_owner_session_any(tok) == tok # NoToken

is_owner_session(tok) ==
    /\ tok # NoToken
    /\ \E s \in SessionByToken(tok) : s.is_owner = 1

-----------------------------------------------------------------------------
(* Subscription / access *)

user_in_free_trial(u) == (users[u].created_at + TRIAL_DAYS) > now

SubIdsOf(u) == {i \in 1..Len(subscriptions) : subscriptions[i].user_id = u}

LastSubOf(u) == CHOOSE i \in SubIdsOf(u) : \A j \in SubIdsOf(u) : j <= i

user_has_active_subscription(u) ==
    IF SubIdsOf(u) = {} THEN FALSE
    ELSE LowerWord(subscriptions[LastSubOf(u)].status) \in {"active", "trialing"}

(* sqlite3.Row has keys() and indexing but no get(): user.get(...) raises *)
(* AttributeError, which FastAPI turns into a 500 response.               *)
RowHasGet == FALSE

require_access(tok, u) ==
    IF is_owner_session(tok) THEN "allow"
    ELSE IF ~RowHasGet THEN "error"
    ELSE IF users[u].is_owner = 1 THEN "allow"
    ELSE IF user_in_free_trial(u) THEN "allow"
    ELSE IF user_has_active_subscription(u) THEN "allow"
    ELSE "payment_required"

-----------------------------------------------------------------------------
(* Initial state: empty tables (init_db), clock at 0 *)

InitTables ==
    /\ users = <<>>
    /\ sessions = {}
    /\ nextSession = 1
    /\ subscriptions = <<>>
    /\ messages = <<>>
    /\ canon_entries = <<>>
    /\ analytics_events = <<>>
    /\ now = 0
    /\ resp = Resp0
    /\ registered = <<>>
    /\ inflight = {}

Init == InitTables /\ cfg = FullConfig

-----------------------------------------------------------------------------
(* The clock *)

(* The clock starts at 0 and jumps forward to the instants around the end  *)
(* of the trial of an account created at 0.                                *)
Instants == {TRIAL_DAYS - 1, TRIAL_DAYS, TRIAL_DAYS + 1}

Tick(t) ==
    /\ t > now
    /\ now' = t
    /\ resp' = [Resp0 EXCEPT !.op = "tick"]
    /\ UNCHANGED <<tables, nextSession, cfg, registered, inflight>>

-----------------------------------------------------------------------------
(* POST /auth/register *)

NewSession(uid) ==
    [id |-> nextSession, user_id |-> uid, token |-> nextSession, created_at |-> now,
     expires_at |-> now + SESSION_TTL_DAYS, is_owner |-> 0]

auth_register(rawEmail, rawPassword, salt) ==
    LET email == Lower(Strip(rawEmail))
        password == Strip(rawPassword)
        arg == [email |-> rawEmail, password |-> rawPassword]
    IN
    /\ IF Len(password) < MIN_PASSWORD_LEN THEN
           /\ resp' = Reply("register", 400, NoToken, 0,
                            "Password must be at least 6 characters", NoToken, arg)
           /\ UNCHANGED <<tables, nextSession, registered>>
       ELSE IF UserByEmail(email) # {} THEN
           \* UNIQUE(email): sqlite3.IntegrityError
           /\ resp' = Reply("register", 409, NoToken, 0,
                            "Account already exists. Please log in.", NoToken, arg)
           /\ UNCHANGED <<tables, nextSession, registered>>
       ELSE
           /\ Len(users) < MaxUsers
           /\ nextSession <= MaxSessions
           /\ users' = Append(users,
                  [email |-> email, pass_hash |-> pbkdf2_hash(password, salt),
                   pass_salt |-> salt, created_at |-> now, is_owner |-> 0,
                   stripe_customer_id |-> ""])
           /\ sessions' = sessions \cup {NewSession(Len(users) + 1)}
           /\ nextSession' = nextSession + 1
           /\ resp' = Reply("register", 200, NoToken, Len(users) + 1, "", nextSession, arg)
           /\ registered' = Append(registered, arg)
           /\ UNCHANGED <<subscriptions, messages, canon_entries, analytics_events>>
    /\ UNCHANGED <<now, cfg, inflight>>

(* POST /auth/register as its two transactions.  The handler is a plain   *)
(* def, which the server runs on a worker thread, so other requests run   *)
(* between the commit of the user row and the insertion of the session.   *)
(* A request that has committed its user row waits in inflight.           *)

(* the insertion on a table whose email column is not UNIQUE *)
auth_register_insert_no_unique(rawEmail, rawPassword, salt) ==
    LET email == Lower(Strip(rawEmail))
        password == Strip(rawPassword)
        arg == [email |-> rawEmail, password |-> rawPassword]
    IN
    /\ IF Len(password) < MIN_PASSWORD_LEN THEN
           /\ resp' = Reply("register", 400, NoToken, 0,
                            "Password must be at least 6 characters", NoToken, arg)
           /\ UNCHANGED <<users, inflight>>
       ELSE
           /\ Len(users) < MaxUsers
           /\ users' = Append(users,
                  [email |-> email, pass_hash |-> pbkdf2_hash(password, salt),
                   pass_salt |-> salt, created_at |-> now, is_owner |-> 0,
                   stripe_customer_id |-> ""])
           /\ inflight' = inflight \cup {[op |-> "register", email |-> email, arg |-> arg]}
           /\ resp' = Reply("register", 0, NoToken, Len(users) + 1, "inserted", NoToken, arg)
    /\ UNCHANGED <<sessions, nextSession, subscriptions, messages, canon_entries,
                   analytics_events, now, cfg, registered>>

(* password check, INSERT INTO users and commit *)
auth_register_insert(rawEmail, rawPassword, salt) ==
    LET email == Lower(Strip(rawEmail))
        password == Strip(rawPassword)
        arg == [email |-> rawEmail, password |-> rawPassword]
    IN
    /\ IF Len(password) < MIN_PASSWORD_LEN THEN
           /\ resp' = Reply("register", 400, NoToken, 0,
                            "Password must be at least 6 characters", NoToken, arg)
           /\ UNCHANGED <<users, inflight>>
       ELSE IF UserByEmail(email) # {} THEN
           \* UNIQUE(email): sqlite3.IntegrityError
           /\ resp' = Reply("register", 409, NoToken, 0,
                            "Account already exists. Please log in.", NoToken, arg)
           /\ UNCHANGED <<users, inflight>>
       ELSE
           /\ Len(users) < MaxUsers
           /\ users' = Append(users,
                  [email |-> email, pass_hash |-> pbkdf2_hash(password, salt),
                   pass_salt |-> salt, created_at |-> now, is_owner |-> 0,
                   stripe_customer_id |-> ""])
           /\ inflight' = inflight \cup {[op |-> "register", email |-> email, arg |-> arg]}
           /\ resp' = Reply("register", 0, NoToken, Len(users) + 1, "inserted", NoToken, arg)
    /\ UNCHANGED <<sessions, nextSession, subscriptions, messages, canon_entries,
                   analytics_events, now, cfg, registered>>

(* SELECT of the user row by email, INSERT INTO sessions, commit, cookie *)
auth_register_session(q) ==
    LET user == UserByEmail(q.email)
        uid == CHOOSE u \in user : TRUE
    IN
    /\ q \in inflight
    /\ q.op = "register"
    /\ inflight' = inflight \ {q}
    /\ IF user = {} THEN
           /\ resp' = Reply("register", 500, NoToken, 0, "Registration failed", NoToken, q.arg)
           /\ UNCHANGED <<sessions, nextSession, registered>>
       ELSE
           /\ nextSession <= MaxSessions
           /\ sessions' = sessions \cup {NewSession(uid)}
           /\ nextSession' = nextSession + 1
           /\ resp' = Reply("register", 200, NoToken, uid, "", nextSession, q.arg)
           /\ registered' = Append(registered, q.arg)
    /\ UNCHANGED <<users, subscriptions, messages, canon_entries, analytics_events, now, cfg>>

(* POST /auth/login *)

(* a login that tells an unknown email (404) from a wrong password (401) *)
auth_login_telling(rawEmail, rawPassword) ==
    LET email == Lower(Strip(rawEmail))
        password == Strip(rawPassword)
        arg == [email |-> rawEmail, password |-> rawPassword]
    IN
    /\ IF UserByEmail(email) = {} THEN
           /\ resp' = Reply("login", 404, NoToken, 0, "No account with this email", NoToken, arg)
           /\ UNCHANGED <<tables, nextSession>>
       ELSE LET u == CHOOSE x \in UserByEmail(email) : TRUE IN
           IF ~compare_digest(pbkdf2_hash(password, users[u].pass_salt), users[u].pass_hash) THEN
               /\ resp' = Reply("login", 401, NoToken, 0, "Invalid email or password",
                                NoToken, arg)
               /\ UNCHANGED <<tables, nextSession>>
           ELSE
               /\ nextSession <= MaxSessions
               /\ sessions' = sessions \cup {NewSession(u)}
               /\ nextSession' = nextSession + 1
               /\ resp' = Reply("login", 200, NoToken, u, "", nextSession, arg)
               /\ UNCHANGED <<users, subscriptions, messages, canon_entries, analytics_events>>
    /\ UNCHANGED <<now, cfg, registered, inflight>>

auth_login(rawEmail, rawPassword) ==
    LET email == Lower(Strip(rawEmail))
        password == Strip(rawPassword)
        arg == [email |-> rawEmail, password |-> rawPassword]
    IN
    /\ IF UserByEmail(email) = {} THEN
           /\ resp' = Reply("login", 401, NoToken, 0, "Invalid email or password", NoToken, arg)
           /\ UNCHANGED <<tables, nextSession>>
       ELSE LET u == CHOOSE x \in UserByEmail(email) : TRUE IN
           IF ~compare_digest(pbkdf2_hash(password, users[u].pass_salt), users[u].pass_hash) THEN
               /\ resp' = Reply("login", 401, NoToken, 0, "Invalid email or password",
                                NoToken, arg)
               /\ UNCHANGED <<tables, nextSession>>
           ELSE
               /\ nextSession <= MaxSessions
               /\ sessions' = sessions \cup {NewSession(u)}
               /\ nextSession' = nextSession + 1
               /\ resp' = Reply("login", 200, NoToken, u, "", nextSession, arg)
               /\ UNCHANGED <<users, subscriptions, messages, canon_entries, analytics_events>>
    /\ UNCHANGED <<now, cfg, registered, inflight>>

(* POST /auth/logout *)

(* DELETE FROM sessions WHERE user_id = (the token's user): logs the user *)
(* out everywhere                                                          *)
auth_logout_everywhere(tok) ==
    /\ sessions' = {s \in sessions :
                       \A x \in SessionByToken(tok) : s.user_id # x.user_id}
    /\ resp' = Reply("logout", 200, tok, 0, "", NoToken, <<>>)
    /\ UNCHANGED <<users, nextSession, subscriptions, messages, canon_entries,
                   analytics_events, now, cfg, registered, inflight>>

auth_logout(tok) ==
    /\ sessions' = IF tok # NoToken THEN {s \in sessions : s.token # tok} ELSE sessions
    /\ resp' = Reply("logout", 200, tok, 0, "", NoToken, <<>>)
    /\ UNCHANGED <<users, nextSession, subscriptions, messages, canon_entries,
                   analytics_events, now, cfg, registered, inflight>>

-----------------------------------------------------------------------------

(* GET /auth/me *)

auth_me(tok) ==
    LET r == get_current_user(tok)
        s == CHOOSE x \in SessionByToken(tok) : TRUE
    IN
    /\ sessions' = SessionsAfterResolve(tok)
    /\ resp' =
        IF r.kind = "ok" THEN
            AuthReply("me", 200, tok, r, "logged_in",
                  [is_owner |-> s.is_owner = 1,
                   trial_active |-> user_in_free_trial(r.uid),
                   subscription_active |-> user_has_active_subscription(r.uid)])
        ELSE AuthReply("me", 200, tok, r, "logged_out", <<>>)
    /\ UNCHANGED <<users, nextSession, subscriptions, messages, canon_entries,
                   analytics_events, now, cfg, registered, inflight>>

(* POST /auth/owner-login *)

owner_login(tok, code) ==
    LET r == get_current_user(tok) IN
    /\ IF cfg.owner_code = "" THEN
           /\ resp' = Reply("owner_login", 500, tok, 0,
                            "Owner code not configured on server.", NoToken, code)
           /\ UNCHANGED <<users, sessions>>
       ELSE IF ~compare_digest(code, cfg.owner_code) THEN
           /\ resp' = Reply("owner_login", 401, tok, 0, "Invalid owner code", NoToken, code)
           /\ UNCHANGED <<users, sessions>>
       ELSE IF r.kind # "ok" THEN
           /\ resp' = AuthReply("owner_login", 401, tok, r, r.detail, code)
           /\ sessions' = SessionsAfterResolve(tok)
           /\ UNCHANGED users
       ELSE
           /\ sessions' = {IF s.token = tok THEN [s EXCEPT !.is_owner = 1] ELSE s : s \in sessions}
           /\ users' = [users EXCEPT ![r.uid].is_owner = 1]
           /\ resp' = AuthReply("owner_login", 200, tok, r, "", code)
    /\ UNCHANGED <<nextSession, subscriptions, messages, canon_entries, analytics_events,
                   now, cfg, registered, inflight>>

(* GET /admin/analytics *)

admin_analytics(tok) ==
    LET r == get_current_user(tok) IN
    /\ sessions' = SessionsAfterResolve(tok)
    /\ resp' =
        IF r.kind # "ok" THEN AuthReply("admin_analytics", 401, tok, r, r.detail, <<>>)
        ELSE IF ~is_owner_session(tok) THEN
            AuthReply("admin_analytics", 403, tok, r, "Owner only", <<>>)
        ELSE AuthReply("admin_analytics", 200, tok, r, "",
                   [users |-> Len(users), events |-> Len(analytics_events),
                    active_subscriptions |->
                        Cardinality({i \in 1..Len(subscriptions) :
                                        subscriptions[i].status \in {"active", "trialing"}})])
    /\ UNCHANGED <<users, nextSession, subscriptions, messages, canon_entries,
                   analytics_events, now, cfg, registered, inflight>>

-----------------------------------------------------------------------------
(* Tabs *)

normalize_tab(tab) ==
    CASE tab = "chat" -> "chat"
      [] tab = "story" -> "writing"
      [] tab = "book" -> "writing"
      [] tab = "writing" -> "writing"
      [] tab = "game" -> "gamedev"
      [] tab = "gamedev" -> "gamedev"
      [] tab = "music" -> "musicdev"
      [] tab = "musicdev" -> "musicdev"
      [] tab = "image" -> "imagelab"
      [] tab = "imagelab" -> "imagelab"
      [] tab = "voice" -> "voicelab"
      [] tab = "voicelab" -> "voicelab"
      [] tab = "designer" -> "gamedesigner"
      [] tab = "gamedesigner" -> "gamedesigner"
      [] tab = "" -> "chat"
      [] OTHER -> tab

store_message(table, uid, tab, role, content) ==
    Append(table, [user_id |-> uid, tab |-> normalize_tab(tab), role |-> role,
                   content |-> content])

(* The gate that generate, save_to_canon and list_canon share: the       *)
(* response of a request that does not get past get_current_user and     *)
(* require_access, or "pass".                                            *)
Gate(op, tok, arg) ==
    LET r == get_current_user(tok) IN
    IF r.kind # "ok" THEN AuthReply(op, 401, tok, r, r.detail, arg)
    ELSE LET a == require_access(tok, r.uid) IN
        IF a = "error" THEN AuthReply(op, 500, tok, r, "AttributeError", arg)
        ELSE IF a = "payment_required" THEN
            AuthReply(op, 402, tok, r,
                      "Subscription required. Please choose a plan to continue.", arg)
        ELSE AuthReply(op, 200, tok, r, "pass", arg)

(* POST /canon/save.  project_id 0 is NULL; the code never inserts into    *)
(* projects, so any other project_id violates the foreign key.            *)

save_to_canon(tok, tab, rawTitle, rawContent, project_id) ==
    LET arg == [tab |-> tab, title |-> rawTitle, content |-> rawContent,
                project_id |-> project_id]
        g == Gate("save_to_canon", tok, arg)
        title == Strip(rawTitle)
        content == Strip(rawContent)
    IN
    /\ sessions' = SessionsAfterResolve(tok)
    /\ IF g.detail # "pass" THEN
           /\ resp' = g
           /\ UNCHANGED <<canon_entries, analytics_events>>
       ELSE IF title = <<>> \/ content = <<>> THEN
           /\ resp' = [g EXCEPT !.status = 400, !.detail = "Title and content are required"]
           /\ UNCHANGED <<canon_entries, analytics_events>>
       ELSE IF project_id # 0 THEN
           \* FOREIGN KEY(project_id) REFERENCES projects(id): IntegrityError, no commit
           /\ resp' = [g EXCEPT !.status = 500, !.detail = "IntegrityError"]
           /\ UNCHANGED <<canon_entries, analytics_events>>
       ELSE
           /\ Len(canon_entries) < MaxCanon
           /\ canon_entries' = Append(canon_entries,
                  [user_id |-> g.uid, project_id |-> project_id, tab |-> normalize_tab(tab),
                   title |-> title, content |-> content])
           /\ analytics_events' = Append(analytics_events,
                  [user_id |-> g.uid, event |-> "canon_save", tab |-> normalize_tab(tab)])
           /\ resp' = [g EXCEPT !.detail = "ok"]
    /\ UNCHANGED <<users, nextSession, subscriptions, messages, now, cfg, registered, inflight>>

(* GET /canon/list *)

list_canon(tok, tab) ==
    LET g == Gate("list_canon", tok, [tab |-> tab]) IN
    /\ sessions' = SessionsAfterResolve(tok)
    /\ resp' =
        IF g.detail # "pass" THEN g
        ELSE [g EXCEPT !.detail = "ok",
                       !.arg = [tab |-> tab,
                                items |-> {i \in 1..Len(canon_entries) :
                                    /\ canon_entries[i].user_id = g.uid
                                    /\ (tab = "" \/ canon_entries[i].tab = normalize_tab(tab))}]]
    /\ UNCHANGED <<users, nextSession, subscriptions, messages, canon_entries,
                   analytics_events, now, cfg, registered, inflight>>

(* POST /generate and its alias POST /api/generate.                        *)
(* provider is what the call to the AI provider does: kind "output_text"   *)
(* (the response carries output_text), "output_items" (the text is spread  *)
(* over the output items), "empty" (no text anywhere) or "throws" (the     *)
(* call raises, text is str(e)).  A text is a sequence of fragments;       *)
(* "WARN" is the warning sign U+26A0 the code puts in front of its own     *)
(* messages.                                                               *)

(* the provider call returns a response whose output_text is "answer" *)
Answered == [kind |-> "output_text", text |-> "answer"]

ProviderTextNoCause(provider) ==
    CASE provider.kind = "throws" -> <<"WARN", " AI error: ">>
      [] provider.kind = "empty" -> <<"WARN", " No text returned.">>
      [] provider.text = "" -> <<"WARN", " No text returned.">>
      [] OTHER -> <<provider.text>>

ProviderText(provider) ==
    CASE provider.kind = "throws" -> <<"WARN", " AI error: ", provider.text>>
      [] provider.kind = "empty" -> <<"WARN", " No text returned.">>
      [] provider.text = "" -> <<"WARN", " No text returned.">>
      [] OTHER -> <<provider.text>>

NotConfiguredText ==
    <<"WARN", " OPENAI_API_KEY is not configured on this server.",
      "Set OPENAI_API_KEY in Render Environment Variables, then restart the service.">>

system_prompt_for_tab(tab) ==
    LET t == normalize_tab(tab) IN
    <<"You are Book Worm AI Studio.",
      CASE t = "musicdev" -> "Focus on music production"
        [] t = "gamedev" -> "Focus on game design"
        [] t = "imagelab" -> "Focus on image prompts"
        [] t = "voicelab" -> "Focus on voice acting workflows"
        [] t = "gamedesigner" -> "Focus on tabletop/board/card game design"
        [] t = "writing" -> "Focus on storytelling"
        [] OTHER -> "General chat mode.">>

(* the ids of a set of rows in insertion order *)
Ascending(S) ==
    [k \in 1..Cardinality(S) |-> CHOOSE i \in S : Cardinality({j \in S : j < i}) = k - 1]

(* ORDER BY id ASC LIMIT ?: the oldest rows instead of the newest *)
load_recent_messages_oldest(table, uid, tab, limit) ==
    LET mine == {i \in 1..Len(table) :
                    table[i].user_id = uid /\ table[i].tab = normalize_tab(tab)}
        rows == Ascending({i \in mine : Cardinality({j \in mine : j < i}) < limit})
    IN [k \in 1..Len(rows) |-> [role |-> table[rows[k]].role, content |-> table[rows[k]].content]]

(* SELECT ... WHERE user_id = ? AND tab = ? ORDER BY id DESC LIMIT ?, reversed *)
load_recent_messages(table, uid, tab, limit) ==
    LET mine == {i \in 1..Len(table) :
                    table[i].user_id = uid /\ table[i].tab = normalize_tab(tab)}
        rows == Ascending({i \in mine : Cardinality({j \in mine : j > i}) < limit})
    IN [k \in 1..Len(rows) |-> [role |-> table[rows[k]].role, content |-> table[rows[k]].content]]

(* the handler body; cap bounds the messages table of the specification   *)
(* that takes the step                                                     *)
generate_body(op, cap, tok, tab, rawPrompt, provider) ==
    LET arg == [tab |-> tab, prompt |-> rawPrompt, provider |-> provider, input |-> <<>>]
        g == Gate(op, tok, arg)
        t == normalize_tab(tab)
        prompt == Strip(rawPrompt)
        withUser == store_message(messages, g.uid, t, "user", prompt)
        input_msgs == <<[role |-> "system", content |-> system_prompt_for_tab(t)]>>
                      \o load_recent_messages(withUser, g.uid, t, HISTORY_LIMIT)
    IN
    /\ sessions' = SessionsAfterResolve(tok)
    /\ IF g.detail # "pass" THEN
           /\ resp' = g
           /\ UNCHANGED <<messages, analytics_events>>
       ELSE IF prompt = <<>> THEN
           /\ resp' = [g EXCEPT !.status = 400, !.detail = "Prompt is required"]
           /\ UNCHANGED <<messages, analytics_events>>
       ELSE IF ~cfg.openai THEN
           /\ Len(messages) + 2 <= cap
           /\ messages' = store_message(withUser, g.uid, t, "assistant", NotConfiguredText)
           /\ resp' = [g EXCEPT !.detail = NotConfiguredText]
           /\ UNCHANGED analytics_events
       ELSE
           /\ Len(messages) + 2 <= cap
           /\ messages' = store_message(withUser, g.uid, t, "assistant", ProviderText(provider))
           /\ analytics_events' = Append(analytics_events,
                  [user_id |-> g.uid, event |-> "generate", tab |-> t])
           /\ resp' = [g EXCEPT !.detail = ProviderText(provider), !.arg.input = input_msgs]
    /\ UNCHANGED <<users, nextSession, subscriptions, canon_entries, now, cfg, registered, inflight>>

generate(tok, tab, rawPrompt, provider) ==
    generate_body("generate", MaxMessages, tok, tab, rawPrompt, provider)

api_generate(tok, tab, rawPrompt, provider) ==
    generate_body("api_generate", MaxMessages, tok, tab, rawPrompt, provider)

-----------------------------------------------------------------------------
(* POST /stripe/checkout.  outcome is what stripe.checkout.Session.create *)
(* does: "url" (a checkout session) or "throws".                           *)

(* (plan or "").strip().lower() on the plan names of the requests *)
PlanWord(plan) ==
    CASE plan = "Pro" -> "pro"
      [] plan = " basic" -> "basic"
      [] OTHER -> plan

price_id_for_plan(plan) ==
    CASE PlanWord(plan) = "basic" -> STRIPE_BASIC_PRICE_ID
      [] PlanWord(plan) = "pro" -> STRIPE_PRO_PRICE_ID
      [] PlanWord(plan) = "patron" -> STRIPE_PATRON_PRICE_ID
      [] OTHER -> ""

stripe_checkout(tok, plan, outcome) ==
    LET r == get_current_user(tok)
        arg == [plan |-> plan, outcome |-> outcome]
    IN
    /\ sessions' = SessionsAfterResolve(tok)
    /\ resp' =
        IF r.kind # "ok" THEN AuthReply("stripe_checkout", 401, tok, r, r.detail, arg)
        ELSE IF ~stripe_configured THEN
            AuthReply("stripe_checkout", 500, tok, r, "Stripe not configured on server.", arg)
        ELSE IF price_id_for_plan(plan) = "" THEN
            AuthReply("stripe_checkout", 400, tok, r, "Invalid plan or missing price id.", arg)
        ELSE IF outcome = "throws" THEN
            AuthReply("stripe_checkout", 500, tok, r, "Stripe error", arg)
        ELSE AuthReply("stripe_checkout", 200, tok, r, "url", arg)
    /\ UNCHANGED <<users, nextSession, subscriptions, messages, canon_entries,
                   analytics_events, now, cfg, registered, inflight>>

-----------------------------------------------------------------------------
(* Protected requests in two steps.  FastAPI runs Depends(get_current_user) *)
(* and the handler body as separate calls on its thread pool, each opening *)
(* its own connection, so other requests can commit between them.         *)
(* Resolve is the dependency; Complete is the body, run for the user the   *)
(* dependency returned.  An in-flight request q records its endpoint, its  *)
(* token, its user, the owner flag its session row had when it was         *)
(* resolved, and the outcome the body would have had at that moment.       *)

MaxInflight == 1

(* status and detail of the handler body of q on the current tables, for  *)
(* well-formed inputs (prompt "hi", plan "pro", a title and a content)     *)
BodyOutcome(op, tok, uid) ==
    IF op = "stripe_checkout" THEN
        IF ~stripe_configured THEN [status |-> 500, detail |-> "Stripe not configured on server."]
        ELSE [status |-> 200, detail |-> "url"]
    ELSE IF op = "admin_analytics" THEN
        IF ~is_owner_session(tok) THEN [status |-> 403, detail |-> "Owner only"]
        ELSE [status |-> 200, detail |-> ""]
    ELSE LET a == require_access(tok, uid) IN
        IF a = "error" THEN [status |-> 500, detail |-> "AttributeError"]
        ELSE IF a = "payment_required" THEN
            [status |-> 402,
             detail |-> "Subscription required. Please choose a plan to continue."]
        ELSE [status |-> 200, detail |-> "ok"]

Resolve(op, tok) ==
    LET r == get_current_user(tok)
        row == CHOOSE x \in SessionByToken(tok) : TRUE
    IN
    /\ sessions' = SessionsAfterResolve(tok)
    /\ IF r.kind # "ok" THEN
           /\ resp' = AuthReply(op, 401, tok, r, r.detail, <<>>)
           /\ UNCHANGED inflight
       ELSE
           /\ Cardinality(inflight) < MaxInflight
           /\ inflight' = inflight \cup
                  {[op |-> op, tok |-> tok, uid |-> r.uid, owner |-> row.is_owner,
                    expected |-> BodyOutcome(op, tok, r.uid)]}
           /\ resp' = AuthReply(op, 0, tok, r, "resolved", <<>>)
    /\ UNCHANGED <<users, nextSession, subscriptions, messages, canon_entries,
                   analytics_events, now, cfg, registered>>

Complete(q) ==
    LET out == BodyOutcome(q.op, q.tok, q.uid)
        wrote == out.status = 200
    IN
    /\ q \in inflight
    /\ inflight' = inflight \ {q}
    /\ resp' = AuthReply(q.op, out.status, q.tok, [kind |-> "ok", uid |-> q.uid], out.detail, q)
    /\ IF wrote /\ q.op \in {"generate", "api_generate"} THEN
           /\ Len(messages) + 2 <= MaxMessages
           /\ messages' = store_message(
                  store_message(messages, q.uid, "chat", "user", <<"h", "i">>),
                  q.uid, "chat", "assistant", ProviderText(Answered))
           /\ analytics_events' = Append(analytics_events,
                  [user_id |-> q.uid, event |-> "generate", tab |-> "chat"])
           /\ UNCHANGED canon_entries
       ELSE IF wrote /\ q.op = "save_to_canon" THEN
           /\ Len(canon_entries) < MaxCanon
           /\ canon_entries' = Append(canon_entries,
                  [user_id |-> q.uid, project_id |-> 0, tab |-> "chat",
                   title |-> <<"t">>, content |-> <<"c">>])
           /\ analytics_events' = Append(analytics_events,
                  [user_id |-> q.uid, event |-> "canon_save", tab |-> "chat"])
           /\ UNCHANGED messages
       ELSE UNCHANGED <<messages, canon_entries, analytics_events>>
    /\ UNCHANGED <<users, sessions, nextSession, subscriptions, now, cfg, registered>>

-----------------------------------------------------------------------------
(* POST /stripe/webhook *)

(* stripe.Webhook.construct_event: raises unless the signature header    *)
(* verifies against STRIPE_WEBHOOK_SECRET                                 *)
construct_event_unchecked(ev) == TRUE

construct_event_ok(ev) == ev.sig = cfg.webhook_secret

(* int(meta["user_id"]); 0 stands for None (the conversion raised) *)
ParseInt(w) ==
    CASE w = "1" -> 1
      [] w = "2" -> 2
      [] w = "7" -> 7
      [] OTHER -> 0

(* the plan of a subscription's first line item *)
PlanOfPrice(pid) ==
    IF pid = STRIPE_PRO_PRICE_ID THEN "pro"
    ELSE IF pid = STRIPE_PATRON_PRICE_ID THEN "patron"
    ELSE "basic"

NewSubscription(uid, customer, subscription, status, plan) ==
    [user_id |-> uid, stripe_customer_id |-> customer, stripe_subscription_id |-> subscription,
     status |-> status, plan |-> plan]

(* fetchone() of a query with no ORDER BY over the rows S *)
fetchone(S) ==
    IF cfg.scan = "first" THEN CHOOSE i \in S : \A j \in S : i <= j
    ELSE CHOOSE i \in S : \A j \in S : i >= j

(* the email looked up first, the metadata only for lack of a match *)
CheckoutUserByEmailFirst(ev) ==
    LET fromMeta == IF ev.meta_user_id # "" THEN ParseInt(ev.meta_user_id) ELSE 0
        byEmail == UserByEmail(Lower(Strip(ev.email)))
    IN
    IF ev.email # <<>> /\ byEmail # {} THEN CHOOSE u \in byEmail : TRUE
    ELSE fromMeta

(* the user a checkout.session.completed event resolves to; 0 for none *)
CheckoutUser(ev) ==
    LET fromMeta == IF ev.meta_user_id # "" THEN ParseInt(ev.meta_user_id) ELSE 0
        byEmail == UserByEmail(Lower(Strip(ev.email)))
    IN
    IF fromMeta # 0 THEN fromMeta
    ELSE IF ev.email # <<>> /\ byEmail # {} THEN CHOOSE u \in byEmail : TRUE
    ELSE 0

(* again: the delivery before this one carried the same event *)
WebhookReply(status, detail, uid, ev, parsed) ==
    Reply("webhook", status, NoToken, uid, detail, NoToken,
          [ev |-> ev, parsed |-> parsed, again |-> (resp.op = "webhook" /\ resp.arg.ev = ev)])

CheckoutCompleted(ev) ==
    LET uid == CheckoutUser(ev)
        plan == LowerWord(IF ev.meta_plan = "" THEN "basic" ELSE ev.meta_plan)
    IN
    IF uid = 0 THEN
        /\ resp' = WebhookReply(200, "ok", 0, ev, TRUE)
        /\ UNCHANGED <<users, subscriptions>>
    ELSE IF uid \notin UserIds THEN
        \* FOREIGN KEY(user_id) REFERENCES users(id): IntegrityError leaves the handler,
        \* nothing is committed
        /\ resp' = WebhookReply(500, "IntegrityError", uid, ev, TRUE)
        /\ UNCHANGED <<users, subscriptions>>
    ELSE
        /\ Len(subscriptions) < MaxSubs
        /\ users' = [users EXCEPT ![uid].stripe_customer_id = ev.customer]
        /\ subscriptions' = Append(subscriptions,
               NewSubscription(uid, ev.customer, ev.subscription, "trialing", plan))
        /\ resp' = WebhookReply(200, "ok", uid, ev, TRUE)

(* a deleted event removes the row it finds instead of updating it *)
SubscriptionChangedDeletesRow(ev) ==
    LET status == LowerWord(IF ev.status = "" THEN "none" ELSE ev.status)
        plan == PlanOfPrice(ev.price)
        found == {u \in UserIds : users[u].stripe_customer_id = ev.customer}
    IN
    IF found = {} THEN
        /\ resp' = WebhookReply(200, "ok", 0, ev, TRUE)
        /\ UNCHANGED <<users, subscriptions>>
    ELSE
        LET u == fetchone(found)
            existing == {i \in SubIdsOf(u) :
                            subscriptions[i].stripe_subscription_id = ev.subscription}
        IN
        /\ IF existing # {} /\ ev.type = "customer.subscription.deleted" THEN
               subscriptions' = SubSeq(subscriptions, 1, fetchone(existing) - 1)
                                \o SubSeq(subscriptions, fetchone(existing) + 1,
                                          Len(subscriptions))
           ELSE IF existing # {} THEN
               subscriptions' = [subscriptions EXCEPT ![fetchone(existing)].status = status,
                                                      ![fetchone(existing)].plan = plan]
           ELSE
               /\ Len(subscriptions) < MaxSubs
               /\ subscriptions' = Append(subscriptions,
                      NewSubscription(u, ev.customer, ev.subscription, status, plan))
        /\ resp' = WebhookReply(200, "ok", u, ev, TRUE)
        /\ UNCHANGED users

SubscriptionChanged(ev) ==
    LET status == LowerWord(IF ev.status = "" THEN "none" ELSE ev.status)
        plan == PlanOfPrice(ev.price)
        found == {u \in UserIds : users[u].stripe_customer_id = ev.customer}
    IN
    IF found = {} THEN
        /\ resp' = WebhookReply(200, "ok", 0, ev, TRUE)
        /\ UNCHANGED <<users, subscriptions>>
    ELSE
        LET u == fetchone(found)
            existing == {i \in SubIdsOf(u) :
                            subscriptions[i].stripe_subscription_id = ev.subscription}
        IN
        /\ IF existing # {} THEN
               subscriptions' = [subscriptions EXCEPT ![fetchone(existing)].status = status,
                                                      ![fetchone(existing)].plan = plan]
           ELSE
               /\ Len(subscriptions) < MaxSubs
               /\ subscriptions' = Append(subscriptions,
                      NewSubscription(u, ev.customer, ev.subscription, status, plan))
        /\ resp' = WebhookReply(200, "ok", u, ev, TRUE)
        /\ UNCHANGED users

stripe_webhook(ev) ==
    /\ IF ~stripe_configured \/ cfg.webhook_secret = "" THEN
           /\ resp' = WebhookReply(500, "Stripe not configured", 0, ev, FALSE)
           /\ UNCHANGED <<users, subscriptions>>
       ELSE IF ~construct_event_ok(ev) THEN
           /\ resp' = WebhookReply(400, "Webhook error", 0, ev, FALSE)
           /\ UNCHANGED <<users, subscriptions>>
       ELSE IF ev.type = "checkout.session.completed" THEN CheckoutCompleted(ev)
       ELSE IF ev.type \in {"customer.subscription.updated", "customer.subscription.deleted"}
           THEN SubscriptionChanged(ev)
       ELSE
           /\ resp' = WebhookReply(200, "ok", 0, ev, TRUE)
           /\ UNCHANGED <<users, subscriptions>>
    /\ UNCHANGED <<sessions, nextSession, messages, canon_entries, analytics_events, now, cfg,
                   registered, inflight>>

-----------------------------------------------------------------------------
(* Inputs *)

Emails == {<<"u">>, <<"U">>, <<"v">>}

Secret == <<"s", "e", "c", "r", "e", "t">>

Passwords == {Secret, Secret \o <<" ">>, <<" ">> \o Secret, <<"s", "e", "c", "r", "e", "x">>,
              <<"a", "b", "c", " ", " ", " ">>}

Salts == {1, 2}

ReqTokens == 0..(MaxSessions + 1)

-----------------------------------------------------------------------------
(* Events of the billing provider *)

CheckoutEvents ==
    [sig : {"whsec"}, type : {"checkout.session.completed"}, customer : {"cus_1"},
     subscription : {"sub_1"}, email : {<<>>, <<"U">>}, meta_user_id : {"", "2", "7"},
     meta_plan : {"", "pro"}, status : {""}, price : {""}]

ChangeEvents ==
    [sig : {"whsec"},
     type : {"customer.subscription.updated", "customer.subscription.deleted"},
     customer : {"cus_1"}, subscription : {"sub_1", "sub_2"}, email : {<<>>},
     meta_user_id : {""}, meta_plan : {""}, status : {"active", "canceled"},
     price : {STRIPE_PRO_PRICE_ID, STRIPE_BASIC_PRICE_ID}]

OtherEvents ==
    [sig : {"whsec"}, type : {"invoice.paid"}, customer : {"cus_1"}, subscription : {"sub_1"},
     email : {<<>>}, meta_user_id : {""}, meta_plan : {""}, status : {""}, price : {""}]

(* the same payloads signed with another secret *)
ForgedEvents ==
    {[ev EXCEPT !.sig = "forged"] : ev \in
        {e \in CheckoutEvents \cup ChangeEvents :
            /\ e.meta_user_id \in {"", "2"} /\ e.email = <<>> /\ e.meta_plan = ""
            /\ e.subscription = "sub_1" /\ e.status \in {"", "active"}
            /\ e.price \in {"", STRIPE_PRO_PRICE_ID}
            /\ e.type # "customer.subscription.deleted"}}

WebhookEvents == CheckoutEvents \cup ChangeEvents \cup OtherEvents \cup ForgedEvents

-----------------------------------------------------------------------------
(* Registration, login and logout *)

NextAuth ==
    \/ \E e \in Emails, p \in Passwords, s \in Salts : auth_register(e, p, s)
    \/ \E e \in Emails, p \in Passwords : auth_login(e, p)
    \/ \E t \in ReqTokens : auth_logout(t)

SpecAuth == Init /\ [][NextAuth]_vars

-----------------------------------------------------------------------------
(* Registrations racing each other: each request in its two transactions, *)
(* the clock moving in between                                             *)

NextRegister ==
    \/ \E e \in Emails, p \in {Secret, <<"a", "b", "c", " ", " ", " ">>} :
          auth_register_insert(e, p, 1)
    \/ \E q \in inflight : auth_register_session(q)
    \/ \E t \in Instants : Tick(t)

SpecRegister == Init /\ [][NextRegister]_vars

-----------------------------------------------------------------------------
(* The billing webhook under every configuration *)

WebhookConfigs ==
    {FullConfig, [FullConfig EXCEPT !.scan = "last"], [FullConfig EXCEPT !.webhook_secret = ""],
     [FullConfig EXCEPT !.stripe = FALSE]}

InitWebhook == InitTables /\ cfg \in WebhookConfigs

NextWebhook ==
    \/ \E e \in {<<"u">>, <<"v">>} : auth_register(e, Secret, 1)
    \/ \E ev \in WebhookEvents : stripe_webhook(ev)

SpecWebhook == InitWebhook /\ [][NextWebhook]_vars

-----------------------------------------------------------------------------
(* The access gate: one account with several sessions, owner elevation,   *)
(* billing events, the clock and the gated endpoints                       *)

OwnerCodes == {"letmein", "guess"}

Prompts == {<<"h", "i">>, <<" ">>}

BillingEvents ==
    {ev \in CheckoutEvents : ev.meta_user_id = "" /\ ev.email = <<"U">> /\ ev.meta_plan = ""}
    \cup {ev \in ChangeEvents : ev.subscription = "sub_1" /\ ev.price = STRIPE_PRO_PRICE_ID
                                /\ ev.type = "customer.subscription.updated"}

Next ==
    \/ \E t \in Instants : Tick(t)
    \/ auth_register(<<"u">>, Secret, 1)
    \/ auth_login(<<"U">>, Secret)
    \/ \E t \in 0..MaxSessions, c \in OwnerCodes : owner_login(t, c)
    \/ \E ev \in BillingEvents : stripe_webhook(ev)
    \/ \E t \in 0..MaxSessions, p \in Prompts : generate(t, "story", p, Answered)
    \/ \E t \in 0..MaxSessions, pid \in {0, 1} : save_to_canon(t, "chat", <<"t">>, <<"c">>, pid)
    \/ \E t \in 0..MaxSessions : list_canon(t, "chat")

Spec == Init /\ [][Next]_vars

-----------------------------------------------------------------------------
(* Sessions over time: two accounts, logins, logouts and the clock *)

(* the instants around the end of a session's lifetime *)
SessionInstants == {SESSION_TTL_DAYS, SESSION_TTL_DAYS + 1}

NextSessions ==
    \/ \E t \in SessionInstants : Tick(t)
    \/ \E e \in {<<"u">>, <<"v">>} : auth_register(e, Secret, 1)
    \/ \E e \in {<<"u">>, <<"v">>} : auth_login(e, Secret)
    \/ \E t \in ReqTokens : auth_logout(t)
    \/ \E t \in ReqTokens : auth_me(t)
    \/ \E t \in ReqTokens : admin_analytics(t)

SpecSession == Init /\ [][NextSessions]_vars

-----------------------------------------------------------------------------
(* Generation: one account, owner elevation, and every outcome of the     *)
(* provider call, with and without an API key                              *)

GenerateConfigs == {FullConfig, [FullConfig EXCEPT !.openai = FALSE]}

InitGenerate == InitTables /\ cfg \in GenerateConfigs

ProviderOutcomes ==
    {Answered, [kind |-> "output_items", text |-> "answer"], [kind |-> "empty", text |-> ""],
     [kind |-> "throws", text |-> "boom"], [kind |-> "throws", text |-> "timed out"]}

NextGenerate ==
    \/ auth_register(<<"u">>, Secret, 1)
    \/ \E t \in 0..1, c \in OwnerCodes : owner_login(t, c)
    \/ \E t \in 0..1, tab \in {"story", ""}, p \in Prompts, o \in ProviderOutcomes :
          generate(t, tab, p, o)
    \/ \E t \in 0..1, tab \in {"story", ""}, p \in Prompts, o \in ProviderOutcomes :
          api_generate(t, tab, p, o)

SpecGenerate == InitGenerate /\ [][NextGenerate]_vars

-----------------------------------------------------------------------------
(* Owner elevation: with and without a configured owner code, two         *)
(* accounts, a second session by login, the clock, and the two endpoints  *)
(* that look at the owner flag                                             *)

OwnerConfigs == {FullConfig, [FullConfig EXCEPT !.owner_code = ""]}

InitOwner == InitTables /\ cfg \in OwnerConfigs

NextOwner ==
    \/ \E t \in SessionInstants : Tick(t)
    \/ \E e \in {<<"u">>, <<"v">>} : auth_register(e, Secret, 1)
    \/ auth_login(<<"u">>, Secret)
    \/ \E t \in 0..MaxSessions, c \in OwnerCodes \cup {""} : owner_login(t, c)
    \/ \E t \in 0..MaxSessions : admin_analytics(t)
    \/ \E t \in 0..MaxSessions : list_canon(t, "chat")

SpecOwner == InitOwner /\ [][NextOwner]_vars

-----------------------------------------------------------------------------
(* The protected endpoints called with and without a usable session: one  *)
(* account, owner elevation, logout, and the clock past the session        *)
(* lifetime                                                                *)

NextProtected ==
    \/ \E t \in SessionInstants : Tick(t)
    \/ auth_register(<<"u">>, Secret, 1)
    \/ auth_login(<<"u">>, Secret)
    \/ \E t \in ReqTokens : auth_logout(t)
    \/ \E t \in ReqTokens : owner_login(t, "letmein")
    \/ \E t \in ReqTokens : generate(t, "story", <<"h", "i">>, Answered)
    \/ \E t \in ReqTokens : api_generate(t, "story", <<"h", "i">>, Answered)
    \/ \E t \in ReqTokens : save_to_canon(t, "chat", <<"t">>, <<"c">>, 0)
    \/ \E t \in ReqTokens : list_canon(t, "chat")
    \/ \E t \in ReqTokens, plan \in {"Pro", "gold"}, o \in {"url", "throws"} :
          stripe_checkout(t, plan, o)
    \/ \E t \in ReqTokens : admin_analytics(t)

SpecProtected == Init /\ [][NextProtected]_vars

-----------------------------------------------------------------------------
(* Logout racing with in-flight requests: one account and its session,    *)
(* owner elevation while no request is in flight, logout at any moment     *)

ConcurrentOps ==
    {"generate", "api_generate", "save_to_canon", "list_canon", "stripe_checkout",
     "admin_analytics"}

NextConcurrent ==
    \/ auth_register(<<"u">>, Secret, 1)
    \/ \E t \in 1..MaxSessions : inflight = {} /\ owner_login(t, "letmein")
    \/ \E t \in 0..MaxSessions : auth_logout(t)
    \/ \E op \in ConcurrentOps, t \in 0..MaxSessions : Resolve(op, t)
    \/ \E q \in inflight : Complete(q)

SpecConcurrent == Init /\ [][NextConcurrent]_vars

-----------------------------------------------------------------------------
(* Conversation history: two accounts, both elevated so that they get     *)
(* past the gate.  The first account first fills its 'writing' history    *)
(* up to WarmUp rows; after that both accounts send prompts under the      *)
(* tabs 'story', 'book' and the default tab, until the messages table      *)
(* holds MaxHistory rows.                                                  *)

WarmUp == 18

MaxHistory == 24

NextHistory ==
    \/ \E e \in {<<"u">>, <<"v">>} : auth_register(e, Secret, 1)
    \/ \E t \in 1..MaxSessions : owner_login(t, "letmein")
    \/ /\ Len(messages) < WarmUp
       /\ generate_body("generate", MaxHistory, 1, "story", <<"o">>, Answered)
    \/ /\ Len(messages) >= WarmUp
       /\ \E t \in 1..MaxSessions, tab \in {"story", "book", ""}, p \in {<<"a">>, <<" ", "b">>} :
             generate_body("generate", MaxHistory, t, tab, p, Answered)

SpecHistory == Init /\ [][NextHistory]_vars

-----------------------------------------------------------------------------
(* Checkout events for two accounts: metadata that names an account,      *)
(* names none, or is not a number, and customer emails in either case      *)

CompletedSessions ==
    [sig : {"whsec"}, type : {"checkout.session.completed"}, customer : {"cus_1", "cus_2"},
     subscription : {"sub_1"}, email : {<<>>, <<"U">>, <<"v">>, <<"x">>},
     meta_user_id : {"", "1", "2", "7", "me"}, meta_plan : {"", "Pro"},
     status : {"complete"}, price : {""}]

NextCheckout ==
    \/ \E e \in {<<"u">>, <<"v">>} : auth_register(e, Secret, 1)
    \/ \E ev \in CompletedSessions : stripe_webhook(ev)

SpecCheckout == Init /\ [][NextCheckout]_vars

-----------------------------------------------------------------------------
(* Properties of the billing webhook (checked under SpecWebhook) *)

WebhookReady == cfg.stripe /\ cfg.webhook_secret # ""

IsCheckout(r) == r.op = "webhook" /\ r.arg.ev.type = "checkout.session.completed"

(* C5: delivering the same verified checkout.session.completed event a     *)
(* second time leaves users and subscriptions as the first delivery left   *)
(* them, with exactly one subscription row for the resolved user.          *)
C5_CheckoutTwiceIsOnce ==
    [][(/\ IsCheckout(resp) /\ resp.status = 200 /\ resp.uid # 0
        /\ resp'.op = "webhook" /\ resp'.arg.ev = resp.arg.ev)
       => (/\ users' = users
           /\ subscriptions' = subscriptions
           /\ Cardinality({i \in 1..Len(subscriptions') :
                              subscriptions'[i].user_id = resp.uid}) = 1)]_vars

(* C6: in every reachable state the subscriptions table holds at most one *)
(* row per user id.                                                        *)
C6_OneRowPerUser ==
    \A u \in UserIds : Cardinality(SubIdsOf(u)) <= 1

(* C7 as stated: a webhook payload whose signature does not verify against *)
(* STRIPE_WEBHOOK_SECRET is answered 400, users and subscriptions are      *)
(* unchanged and no business field is read.                                *)
C7_BadSignatureIs400 ==
    [][(resp'.op = "webhook" /\ resp'.arg.ev.sig # cfg.webhook_secret)
       => (/\ resp'.status = 400
           /\ users' = users /\ subscriptions' = subscriptions
           /\ ~resp'.arg.parsed)]_vars

(* C7 as amended: such a payload changes no table and no business field   *)
(* of it is read; the answer is 400 when Stripe and the webhook secret    *)
(* are configured and 500 ("Stripe not configured") when they are not.    *)
C7_BadSignatureRejected ==
    [][(resp'.op = "webhook" /\ resp'.arg.ev.sig # cfg.webhook_secret)
       => (/\ resp'.status = (IF WebhookReady THEN 400 ELSE 500)
           /\ users' = users /\ subscriptions' = subscriptions
           /\ ~resp'.arg.parsed)]_vars

(* a forged checkout event naming an existing user has been rejected with 400 *)
C7_Witness ==
    /\ resp.op = "webhook" /\ resp.status = 400
    /\ resp.arg.ev.sig = "forged" /\ cfg.webhook_secret = "whsec"
    /\ IsCheckout(resp) /\ ParseInt(resp.arg.ev.meta_user_id) \in UserIds

(* C8: every event whose signature verifies is answered 200, also when    *)
(* processing it fails internally.                                         *)
C8_VerifiedIs200 ==
    (resp.op = "webhook" /\ WebhookReady /\ resp.arg.ev.sig = cfg.webhook_secret)
        => resp.status = 200

(* C9: after a verified customer.subscription.deleted event for a known   *)
(* customer the user's row for that subscription has plan 'free' and      *)
(* status 'canceled' whatever the price; after customer.subscription.     *)
(* updated its plan is the plan of the first line item's price id.        *)
C9_DeletedForcesFree ==
    (resp.op = "webhook" /\ resp.status = 200 /\ resp.uid # 0 /\ ~IsCheckout(resp))
        => \E i \in SubIdsOf(resp.uid) :
            /\ subscriptions[i].stripe_subscription_id = resp.arg.ev.subscription
            /\ IF resp.arg.ev.type = "customer.subscription.deleted"
               THEN subscriptions[i].plan = "free" /\ subscriptions[i].status = "canceled"
               ELSE subscriptions[i].plan =
                        (CASE resp.arg.ev.price = "price_pro" -> "pro"
                           [] resp.arg.ev.price = "price_patron" -> "patron"
                           [] OTHER -> "basic")

-----------------------------------------------------------------------------
(* Properties of registration and login (checked under SpecAuth) *)

(* the login of the last step is for the email account u was registered with *)
LoginFor(u) == resp.op = "login" /\ resp.arg.email = registered[u].email

LoginSucceededFor(u) ==
    /\ resp.status = 200
    /\ resp.uid = u
    /\ \E s \in sessions : s.token = resp.cookie /\ s.user_id = u

-----------------------------------------------------------------------------
(* Properties of session resolution (checked under SpecSession) *)

(* the last step ran get_current_user on the request's cookie *)
Resolved(r) ==
    \/ r.op \in {"admin_analytics", "generate", "save_to_canon", "list_canon"}
    \/ r.op = "owner_login" /\ cfg.owner_code # "" /\ r.arg = cfg.owner_code

HasRow(table, tok) == \E s \in table : s.token = tok

(* C4: a token issued by auth_register or auth_login for user u resolves  *)
(* through get_current_user to u at every time up to its expires_at       *)
(* (creation + SESSION_TTL_DAYS) while it is not revoked; the first        *)
(* resolution after expires_at answers 401 and deletes the row, and no     *)
(* later step finds a row for that token.                                  *)
C4_SessionLifetime ==
    [][/\ \* issue: the cookie names a fresh row of the user, expiring after the TTL
          (resp'.op \in {"register", "login"} /\ resp'.status = 200)
             => /\ ~HasRow(sessions, resp'.cookie)
                /\ \E s \in sessions' :
                     /\ s.token = resp'.cookie /\ s.user_id = resp'.uid
                     /\ s.expires_at = now + 30
       /\ \A s \in sessions :
            \* resolve: the user up to expires_at, 401 and eviction after it
            /\ (Resolved(resp') /\ resp'.tok = s.token)
                 => IF now <= s.expires_at
                    THEN /\ resp'.status # 401 /\ resp'.uid = s.user_id
                         /\ HasRow(sessions', s.token)
                    ELSE resp'.status = 401 /\ ~HasRow(sessions', s.token)
            \* a row keeps its user and its expiry
            /\ \A s2 \in sessions' :
                 s2.token = s.token => s2.user_id = s.user_id /\ s2.expires_at = s.expires_at
            \* a row goes only by logout with its token or after its expiry
            /\ ~HasRow(sessions', s.token)
                 => \/ resp'.op = "logout" /\ resp'.tok = s.token
                    \/ (now > s.expires_at /\ resp'.tok = s.token)
       /\ \* once a token has no row, it never has one again and resolves to 401
          \A t \in 1..(nextSession - 1) :
            ~HasRow(sessions, t)
              => /\ ~HasRow(sessions', t)
                 /\ (Resolved(resp') /\ resp'.tok = t) => resp'.status = 401
      ]_vars

(* a session was resolved after its expiry: 401, and its row is gone *)
C4_Witness ==
    /\ resp.op = "admin_analytics" /\ resp.status = 401 /\ resp.auth = "expired"
    /\ resp.tok \in 1..(nextSession - 1)
    /\ ~HasRow(sessions, resp.tok)

-----------------------------------------------------------------------------
(* Properties of the access gate (checked under Spec) *)

(* the last step was a gated endpoint called with a valid session *)
Gated == resp.op \in {"generate", "save_to_canon", "list_canon"} /\ resp.auth = "ok"

(* require_access let the request through (whatever the handler answered next) *)
GateAllowed == resp.status \in {200, 400} \/ resp.detail = "IntegrityError"

SessionIsOwner == \E s \in sessions : s.token = resp.tok /\ s.is_owner = 1

NonOwner == ~SessionIsOwner /\ users[resp.uid].is_owner = 0

TrialOver == now >= users[resp.uid].created_at + 30

Paid ==
    LET mine == {i \in 1..Len(subscriptions) : subscriptions[i].user_id = resp.uid} IN
    /\ mine # {}
    /\ \E i \in mine :
         /\ \A j \in mine : j <= i
         /\ subscriptions[i].status \in {"active", "trialing"}

(* C1: for a non-owner user with no subscription row, require_access      *)
(* allows the request whenever now < created_at + 30 days and rejects it  *)
(* with 402 whenever now >= created_at + 30 days.                         *)
C1_TrialGate ==
    (Gated /\ NonOwner /\ \A i \in 1..Len(subscriptions) : subscriptions[i].user_id # resp.uid)
        => IF TrialOver THEN resp.status = 402 ELSE GateAllowed

(* C2: require_access always allows a request whose session has           *)
(* is_owner = 1 or whose user row has is_owner = 1, at any time and        *)
(* whatever the subscription rows are.                                     *)
C2_OwnerAlwaysAllowed ==
    (Gated /\ (SessionIsOwner \/ users[resp.uid].is_owner = 1)) => GateAllowed

(* C3: for a non-owner user whose trial has ended, require_access allows  *)
(* the request iff the subscription status is 'active' or 'trialing';      *)
(* otherwise the request fails with 402 and the plan-selection message.    *)
C3_PaidGate ==
    (Gated /\ NonOwner /\ TrialOver)
        => IF Paid THEN GateAllowed
           ELSE /\ resp.status = 402
                /\ resp.detail = "Subscription required. Please choose a plan to continue."

-----------------------------------------------------------------------------
(* Properties of registration and login (checked under SpecAuth) *)

(* the lower-cased form of an email, letter by letter *)
LowerCased(e) ==
    [i \in 1..Len(e) |-> IF e[i] = "U" THEN "u" ELSE IF e[i] = "V" THEN "v" ELSE e[i]]

(* the step is a registration under an email whose lower-cased form is     *)
(* the email of an existing user                                           *)
RegistersTakenEmail ==
    /\ resp'.op = "register"
    /\ \E u \in UserIds : users[u].email = LowerCased(resp'.arg.email)

(* on that step no table changes, no session is created, no cookie is set *)
NothingRegistered ==
    /\ users' = users /\ sessions' = sessions /\ nextSession' = nextSession
    /\ resp'.cookie = NoToken

(* C11 as stated: auth_register with an email whose lower-cased form is    *)
(* the email of an existing user fails with the duplicate-email error      *)
(* (409); users is unchanged, no session row is created and no cookie is   *)
(* set.                                                                    *)
C11_DuplicateEmailIs409 ==
    [][RegistersTakenEmail
       => (/\ resp'.status = 409
           /\ resp'.detail = "Account already exists. Please log in."
           /\ NothingRegistered)]_vars

(* C11 as amended: such a registration always fails and leaves users and   *)
(* sessions unchanged and sets no cookie; the failure is the               *)
(* duplicate-email error (409) when the stripped password has at least 6   *)
(* characters, and the password-length error (400) when it is shorter,     *)
(* because the length is checked before the insert.                        *)
C11_DuplicateEmailRejected ==
    [][RegistersTakenEmail
       => (/\ IF Len(Strip(resp'.arg.password)) >= MIN_PASSWORD_LEN
              THEN /\ resp'.status = 409
                   /\ resp'.detail = "Account already exists. Please log in."
              ELSE /\ resp'.status = 400
                   /\ resp'.detail = "Password must be at least 6 characters"
           /\ NothingRegistered)]_vars

(* a registration under "U" was refused with 409 while "u" is registered *)
C11_Witness ==
    /\ resp.op = "register" /\ resp.status = 409
    /\ resp.arg.email = <<"U">>
    /\ \E u \in UserIds : users[u].email = <<"u">>

-----------------------------------------------------------------------------
(* Properties of generate (checked under SpecGenerate) *)

GenerateOps == {"generate", "api_generate"}

(* the request r came with a valid session, got past require_access and   *)
(* carried a prompt that is not blank                                      *)
WellFormedGenerate(r) ==
    /\ r.op \in GenerateOps /\ r.auth = "ok"
    /\ require_access(r.tok, r.uid) = "allow"
    /\ \E i \in 1..Len(r.arg.prompt) : r.arg.prompt[i] # " "

(* C12: for an authenticated caller who passes the access gate and sends  *)
(* a non-empty prompt, generate answers 200 whenever the provider call     *)
(* throws: the response text begins with the warning marker and embeds    *)
(* the error message; no 5xx reaches the caller.                           *)
C12_ProviderErrorIs200 ==
    (WellFormedGenerate(resp) /\ cfg.openai /\ resp.arg.provider.kind = "throws")
        => /\ resp.status = 200
           /\ Len(resp.detail) >= 2
           /\ resp.detail[1] = "WARN"
           /\ \E i \in 2..Len(resp.detail) : resp.detail[i] = resp.arg.provider.text

(* the provider raised "timed out" and the caller got it in a 200 answer *)
C12_Witness ==
    /\ WellFormedGenerate(resp) /\ cfg.openai
    /\ resp.arg.provider = [kind |-> "throws", text |-> "timed out"]
    /\ resp.status = 200
    /\ resp.detail = <<"WARN", " AI error: ", "timed out">>

(* what a well-formed generate call is said to write: the user message,  *)
(* then the assistant message, then one analytics event                    *)
StoresTurnAndEvent ==
    LET n == Len(messages)
        tab == normalize_tab(resp'.arg.tab)
    IN /\ Len(messages') = n + 2
       /\ SubSeq(messages', 1, n) = messages
       /\ messages'[n + 1] = [user_id |-> resp'.uid, tab |-> tab, role |-> "user",
                              content |-> Strip(resp'.arg.prompt)]
       /\ messages'[n + 2] = [user_id |-> resp'.uid, tab |-> tab, role |-> "assistant",
                              content |-> resp'.detail]
       /\ analytics_events' = Append(analytics_events,
              [user_id |-> resp'.uid, event |-> "generate", tab |-> tab])

(* C13: every generate call that passes authentication, the access gate   *)
(* and prompt validation stores exactly one 'user' message and then       *)
(* exactly one 'assistant' message under the normalized tab and appends    *)
(* exactly one 'generate' analytics event tagged with that tab, on every  *)
(* path, the one without an API key included.                              *)
C13_TwoMessagesOneEvent ==
    [][WellFormedGenerate(resp') => StoresTurnAndEvent]_vars

-----------------------------------------------------------------------------
(* Properties of owner elevation (checked under SpecOwner) *)

(* the step raises an owner flag: a session row that was not owner-flagged *)
(* before is owner-flagged after it, or a user row likewise                *)
RaisesSessionFlag(t) ==
    /\ \E s \in sessions' : s.token = t /\ s.is_owner = 1
    /\ ~\E s \in sessions : s.token = t /\ s.is_owner = 1

RaisesUserFlag(u) ==
    /\ u \in 1..Len(users') /\ users'[u].is_owner = 1
    /\ ~(u \in UserIds /\ users[u].is_owner = 1)

(* the step is an owner_login with the session's token, the configured    *)
(* non-empty code and a session that exists and has not expired            *)
GoodOwnerLogin(t) ==
    /\ resp'.op = "owner_login" /\ resp'.tok = t /\ resp'.status = 200
    /\ cfg.owner_code # "" /\ resp'.arg = cfg.owner_code
    /\ \E s \in sessions : s.token = t /\ now <= s.expires_at

(* the owner flags of the rows that exist after the step are those they   *)
(* had before it                                                           *)
OwnerFlagsUnchanged ==
    /\ \A s \in sessions' : \E o \in sessions : o.token = s.token /\ o.is_owner = s.is_owner
    /\ \A u \in UserIds : users'[u].is_owner = users[u].is_owner
    /\ Len(users') = Len(users)

(* C14: a session row gets is_owner = 1 only by an owner_login carrying   *)
(* its token, the non-empty configured code and a still-valid session; a  *)
(* wrong code, an unconfigured code or a missing or expired session        *)
(* leaves every session and user owner flag unchanged.                     *)
C14_OwnerFlagOnlyByCode ==
    [][/\ \A t \in 1..MaxSessions : RaisesSessionFlag(t) => GoodOwnerLogin(t)
       /\ \A u \in 1..MaxUsers : RaisesUserFlag(u)
            => \E t \in 1..MaxSessions :
                  /\ GoodOwnerLogin(t)
                  /\ \E s \in sessions : s.token = t /\ s.user_id = u
       /\ (resp'.op = "owner_login" /\ ~GoodOwnerLogin(resp'.tok))
            => (OwnerFlagsUnchanged /\ resp'.status # 200)
      ]_vars

(* a session has been elevated, and after it a wrong code was refused     *)
(* while the elevated session kept its flag                                *)
C14_Witness ==
    /\ resp.op = "owner_login" /\ resp.status = 401 /\ resp.arg = "guess"
    /\ \E s \in sessions : s.is_owner = 1
    /\ \E s \in sessions : s.is_owner = 0 /\ s.token = resp.tok

-----------------------------------------------------------------------------
(* Properties of logout and of unauthenticated requests (checked under    *)
(* SpecSession)                                                            *)

(* C16: auth_logout deletes exactly the session row of the presented      *)
(* token and always succeeds; with a token that has no row (used before,  *)
(* unknown, or absent) it leaves the database unchanged; the sessions      *)
(* under other tokens stay as they were and resolve as before.            *)
C16_LogoutExactAndIdempotent ==
    [][resp'.op = "logout"
       => (/\ resp'.status = 200
           /\ resp'.cookie = NoToken
           /\ \A s \in sessions : s \in sessions' <=> s.token # resp'.tok
           /\ sessions' \subseteq sessions
           /\ UNCHANGED <<users, subscriptions, messages, canon_entries, analytics_events>>
           /\ ~HasRow(sessions, resp'.tok) => sessions' = sessions
           /\ \A t \in 1..MaxSessions :
                t # resp'.tok => get_current_user(t)' = get_current_user(t))]_vars

(* a user with two sessions logged one of them out; the other is still there *)
C16_Witness ==
    /\ resp.op = "logout"
    /\ resp.tok \in 1..(nextSession - 1)
    /\ ~HasRow(sessions, resp.tok)
    /\ \E s \in sessions : s.user_id = 1
    /\ Len(users) = 1
    /\ now = 0

-----------------------------------------------------------------------------
(* Properties of the protected endpoints (checked under SpecProtected) *)

ProtectedOps ==
    {"generate", "api_generate", "save_to_canon", "list_canon", "stripe_checkout",
     "admin_analytics"}

(* token t is absent, has no session row, or has a row past its expiry *)
Unauthenticated(t) ==
    \/ t = NoToken
    \/ ~\E s \in sessions : s.token = t
    \/ \E s \in sessions : s.token = t /\ now > s.expires_at

(* C17: every protected endpoint called with no session cookie, an        *)
(* unknown token or an expired token answers 401 and changes no row of    *)
(* users, messages, canon_entries, analytics_events or subscriptions; of  *)
(* sessions only the expired row itself may go.                            *)
C17_UnauthenticatedIs401 ==
    [][(resp'.op \in ProtectedOps /\ Unauthenticated(resp'.tok))
       => (/\ resp'.status = 401
           /\ UNCHANGED <<users, messages, canon_entries, analytics_events, subscriptions>>
           /\ sessions' \subseteq sessions
           /\ \A s \in sessions \ sessions' : s.token = resp'.tok /\ now > s.expires_at)]_vars

(* a checkout was asked for with an expired session: 401, and the row is gone *)
C17_Witness ==
    /\ resp.op = "stripe_checkout" /\ resp.status = 401 /\ resp.auth = "expired"
    /\ resp.tok \in 1..(nextSession - 1)
    /\ ~HasRow(sessions, resp.tok)

-----------------------------------------------------------------------------
(* Properties of requests racing with logout (checked under SpecConcurrent) *)

(* the step runs the handler body of the in-flight request q *)
Completes(q) == q \in inflight /\ q \notin inflight' /\ resp'.arg = q

(* the step is the identity resolution of a protected request *)
Resolves == resp'.op \in ConcurrentOps /\ resp'.status \in {0, 401}

(* a request that starts when its token has no session row gets 401 *)
StartsAfterLogoutIs401 ==
    (Resolves /\ ~HasRow(sessions, resp'.tok))
        => (resp'.status = 401 /\ inflight' = inflight)

(* C18 as stated: an in-flight request that has resolved its identity      *)
(* completes with the result it would have had without the logout, on     *)
(* every protected endpoint; a request that starts after the logout has    *)
(* committed gets 401.                                                     *)
C18_InflightUnaffected ==
    [][/\ \A q \in inflight :
            Completes(q) => (resp'.status = q.expected.status
                             /\ resp'.detail = q.expected.detail)
       /\ StartsAfterLogoutIs401]_vars

(* q's session row was owner-flagged when q was resolved and has been     *)
(* deleted since, and q's handler looks at the session's owner flag        *)
LostOwnerFlag(q) ==
    /\ q.owner = 1 /\ ~HasRow(sessions, q.tok)
    /\ q.op # "stripe_checkout"

(* C18 as amended: the in-flight request completes with the result it     *)
(* would have had without the logout unless its session was owner-flagged *)
(* and its handler reads the flag after the logout has committed; then     *)
(* admin_analytics answers 403 and generate, save_to_canon and list_canon *)
(* lose the owner-session exemption of require_access (HTTP 500 from the   *)
(* user-row check that follows) and write nothing.  A request that starts *)
(* after the logout has committed gets 401.                                *)
C18_InflightSeesLogoutOfOwner ==
    [][/\ \A q \in inflight :
            Completes(q)
              => IF LostOwnerFlag(q)
                 THEN /\ resp'.status = (IF q.op = "admin_analytics" THEN 403 ELSE 500)
                      /\ q.expected.status = 200
                      /\ UNCHANGED tables
                 ELSE /\ resp'.status = q.expected.status
                      /\ resp'.detail = q.expected.detail
       /\ StartsAfterLogoutIs401]_vars

(* an admin_analytics request resolved on an owner-flagged session was    *)
(* answered 403 because the session was logged out before the handler ran *)
C18_Witness ==
    /\ resp.op = "admin_analytics" /\ resp.status = 403
    /\ resp.arg.owner = 1 /\ resp.arg.expected.status = 200
    /\ ~HasRow(sessions, resp.tok)

-----------------------------------------------------------------------------
(* Properties of the provider input (checked under SpecHistory) *)

(* the last step was a generate call that reached the provider *)
SentToProvider == resp.op \in GenerateOps /\ resp.status = 200 /\ cfg.openai

(* the rows of the user and normalized tab of the last request, as they   *)
(* were when the provider was called: every row but the assistant row     *)
(* that the call has added since                                           *)
OwnRows ==
    {i \in 1..(Len(messages) - 1) :
        /\ messages[i].user_id = resp.uid
        /\ messages[i].tab = normalize_tab(resp.arg.tab)}

(* the k-th oldest row of a set of rows *)
Nth(S, k) == CHOOSE i \in S : Cardinality({j \in S : j <= i}) = k

-----------------------------------------------------------------------------
(* Login failures (checked under SpecAuth) *)

(* no account is registered under the lower-cased email of the login *)
UnknownEmail ==
    ~\E u \in UserIds : users[u].email = LowerCased(resp'.arg.email)

(* an account is, and the password differs from the one it was registered *)
(* with, surrounding whitespace aside                                      *)
WrongPassword ==
    \E u \in UserIds :
        /\ users[u].email = LowerCased(resp'.arg.email)
        /\ Strip(resp'.arg.password) # Strip(registered[u].password)

(* the one response of a failed login: nothing in it but the request's    *)
(* own arguments                                                           *)
GenericLoginFailure ==
    /\ resp'.status = 401
    /\ resp'.detail = "Invalid email or password"
    /\ resp'.cookie = NoToken /\ resp'.uid = 0 /\ resp'.auth = ""
    /\ sessions' = sessions /\ nextSession' = nextSession
    /\ UNCHANGED <<users, subscriptions, messages, canon_entries, analytics_events>>

(* C20: auth_login gives the same outcome for an unknown email and for a  *)
(* known email with a wrong password: status 401, the detail 'Invalid     *)
(* email or password', no session row and no cookie, so the response does *)
(* not tell whether the email is registered.                               *)
C20_LoginFailuresAlike ==
    [][(resp'.op = "login" /\ (UnknownEmail \/ WrongPassword)) => GenericLoginFailure]_vars

(* both kinds of failure are possible in this state: "u" is registered,   *)
(* "v" is not, and the login just refused was for "v"                      *)
C20_Witness ==
    /\ resp.op = "login" /\ resp.status = 401 /\ resp.arg.email = <<"v">>
    /\ \E u \in UserIds : users[u].email = <<"u">>
    /\ ~\E u \in UserIds : users[u].email = <<"v">>

-----------------------------------------------------------------------------
(* Properties of checkout events (checked under SpecCheckout) *)

(* the number a metadata user_id spells; 0 when it spells none *)
MetaId(w) == IF w = "1" THEN 1 ELSE IF w = "2" THEN 2 ELSE IF w = "7" THEN 7 ELSE 0

(* the user the event ev is for: the metadata user when the metadata      *)
(* spells an id, otherwise the account registered under the lower-cased    *)
(* customer email; 0 when there is neither                                 *)
TargetUser(ev) ==
    IF MetaId(ev.meta_user_id) # 0 THEN MetaId(ev.meta_user_id)
    ELSE IF \E u \in UserIds : users[u].email = LowerCased(ev.email)
         THEN CHOOSE u \in UserIds : users[u].email = LowerCased(ev.email)
         ELSE 0

(* the step handles a verified checkout.session.completed event *)
VerifiedCheckoutStep ==
    /\ resp'.op = "webhook" /\ resp'.arg.ev.type = "checkout.session.completed"
    /\ WebhookReady /\ resp'.arg.ev.sig = cfg.webhook_secret

(* the step records a subscription with status st for the existing user u *)
RecordsSubscription(u, st) ==
    LET ev == resp'.arg.ev IN
    /\ subscriptions' = Append(subscriptions,
           [user_id |-> u, stripe_customer_id |-> ev.customer,
            stripe_subscription_id |-> ev.subscription, status |-> st,
            plan |-> IF ev.meta_plan = "" THEN "basic"
                     ELSE IF ev.meta_plan = "Pro" THEN "pro" ELSE ev.meta_plan])
    /\ users' = [users EXCEPT ![u].stripe_customer_id = ev.customer]

(* C21 as stated: the target user is taken from the metadata user_id when *)
(* present and otherwise from the lower-cased customer email; the event's *)
(* plan, status, customer id and subscription id are recorded for that    *)
(* user; the metadata user wins over the email; when no user is resolved  *)
(* no row is changed.                                                      *)
C21_CheckoutRecordsEvent ==
    [][VerifiedCheckoutStep
       => LET u == TargetUser(resp'.arg.ev) IN
          IF u \in UserIds THEN RecordsSubscription(u, resp'.arg.ev.status)
          ELSE users' = users /\ subscriptions' = subscriptions]_vars

(* C21 as amended: the same, except that the status recorded is always    *)
(* 'trialing', whatever the event carries, and the plan is the metadata   *)
(* plan lower-cased ('basic' when absent); a metadata user_id that names   *)
(* no account is not replaced by the email: the insert fails (HTTP 500)    *)
(* and no row is changed.                                                  *)
C21_CheckoutRecordsTrialing ==
    [][VerifiedCheckoutStep
       => LET u == TargetUser(resp'.arg.ev) IN
          IF u \in UserIds THEN RecordsSubscription(u, "trialing") /\ resp'.status = 200
          ELSE /\ users' = users /\ subscriptions' = subscriptions
               /\ resp'.status = (IF u = 0 THEN 200 ELSE 500)]_vars

(* the metadata named account 2 and the email account 1: the row went to  *)
(* account 2                                                               *)
C21_Witness ==
    /\ resp.op = "webhook" /\ resp.status = 200
    /\ resp.arg.ev.meta_user_id = "2" /\ resp.arg.ev.email = <<"U">>
    /\ Len(users) = 2 /\ users[1].email = <<"u">>
    /\ Len(subscriptions) >= 1
    /\ subscriptions[Len(subscriptions)].user_id = 2
    /\ subscriptions[Len(subscriptions)].status = "trialing"
    /\ users[2].stripe_customer_id = resp.arg.ev.customer

-----------------------------------------------------------------------------
(* Properties of admin_analytics (checked under SpecProtected) *)

(* the token's session row exists and has not expired *)
ValidSession(t) == \E s \in sessions : s.token = t /\ now <= s.expires_at

OwnerFlagged(t) == \E s \in sessions : s.token = t /\ s.is_owner = 1

(* the answer of admin_analytics to the token of the step: data to a      *)
(* valid owner-flagged session, 403 to any other valid session, 401 to    *)
(* the rest                                                                *)
AdminAnswer ==
    IF ValidSession(resp'.tok) /\ OwnerFlagged(resp'.tok)
    THEN /\ resp'.status = 200
         /\ resp'.arg = [users |-> Len(users), events |-> Len(analytics_events),
                         active_subscriptions |->
                             Cardinality({i \in 1..Len(subscriptions) :
                                 subscriptions[i].status \in {"active", "trialing"}})]
    ELSE /\ resp'.status = (IF ValidSession(resp'.tok) THEN 403 ELSE 401)
         /\ resp'.arg = <<>>

(* C22 as stated: admin_analytics returns data only to a valid            *)
(* owner-flagged session, answers 403 to an authenticated session without *)
(* the flag and 401 to an unauthenticated request, and never modifies the  *)
(* database.                                                               *)
C22_AdminReadOnly ==
    [][resp'.op = "admin_analytics" => (AdminAnswer /\ UNCHANGED tables)]_vars

(* C22 as amended: the same answers; the only change to the database is   *)
(* that a request carrying an expired token deletes that session row.      *)
C22_AdminDeletesOnlyExpired ==
    [][resp'.op = "admin_analytics"
       => (/\ AdminAnswer
           /\ UNCHANGED <<users, subscriptions, messages, canon_entries, analytics_events>>
           /\ sessions' = {s \in sessions : ~(s.token = resp'.tok /\ now > s.expires_at)})]_vars

(* the owner-flagged session got the counts while the account's other     *)
(* session had no flag                                                     *)
C22_Witness ==
    /\ resp.op = "admin_analytics" /\ resp.status = 200
    /\ resp.arg = [users |-> 1, events |-> 0, active_subscriptions |-> 0]
    /\ OwnerFlagged(resp.tok)
    /\ \E s \in sessions : s.is_owner = 0 /\ s.user_id = resp.uid

-----------------------------------------------------------------------------
(* Order of the checks of generate and save_to_canon (checked under Spec) *)

(* the caller of the step has a valid session without owner flag, an      *)
(* account without owner flag whose trial is over, and no active or       *)
(* trialing subscription                                                   *)
UnpaidAfterTrial ==
    \E s \in sessions :
        /\ s.token = resp'.tok /\ now <= s.expires_at /\ s.is_owner = 0
        /\ users[s.user_id].is_owner = 0
        /\ now >= users[s.user_id].created_at + TRIAL_DAYS
        /\ \/ \A i \in 1..Len(subscriptions) : subscriptions[i].user_id # s.user_id
           \/ \E i \in 1..Len(subscriptions) :
                /\ subscriptions[i].user_id = s.user_id
                /\ \A j \in 1..Len(subscriptions) :
                      subscriptions[j].user_id = s.user_id => j <= i
                /\ subscriptions[i].status \notin {"active", "trialing"}

(* C23: generate and save_to_canon check identity (401), then the access  *)
(* gate (402), then the input (400), and write nothing before all three   *)
(* pass: a request rejected with 401, 402 or 400 stores no message, no    *)
(* canon entry and no analytics event, and an unpaid post-trial caller    *)
(* gets 402 whatever the input, an empty prompt included.                  *)
C23_ChecksInOrder ==
    [][resp'.op \in {"generate", "save_to_canon"}
       => (/\ resp'.status \in {401, 402, 400}
                => UNCHANGED <<messages, canon_entries, analytics_events>>
           /\ UnpaidAfterTrial => resp'.status = 402)]_vars

-----------------------------------------------------------------------------
(* Repeated delivery of a subscription event (checked under SpecWebhook) *)

ChangeTypes == {"customer.subscription.updated", "customer.subscription.deleted"}

(* the step delivers, verified, the updated/deleted event that the step   *)
(* before it delivered, verified                                           *)
SecondDelivery ==
    /\ resp.op = "webhook" /\ resp.arg.parsed /\ resp.arg.ev.type \in ChangeTypes
    /\ resp'.op = "webhook" /\ resp'.arg.parsed /\ resp'.arg.ev = resp.arg.ev

(* C24: delivering the same verified customer.subscription.updated or     *)
(* customer.subscription.deleted event twice in sequence leaves the       *)
(* subscriptions table as it was after the first delivery: the row of     *)
(* (user, subscription id) is updated in place, no row is added.           *)
C24_SecondDeliveryChangesNothing ==
    [][SecondDelivery => (subscriptions' = subscriptions /\ users' = users)]_vars

(* a deleted event for a subscription id that only such events can have   *)
(* stored was delivered twice in a row and its one row reads 'canceled'    *)
C24_Witness ==
    /\ resp.op = "webhook" /\ resp.status = 200 /\ resp.arg.again /\ resp.uid # 0
    /\ resp.arg.ev.type = "customer.subscription.deleted"
    /\ resp.arg.ev.subscription = "sub_2"
    /\ Cardinality({i \in 1..Len(subscriptions) :
                       /\ subscriptions[i].user_id = resp.uid
                       /\ subscriptions[i].stripe_subscription_id = "sub_2"
                       /\ subscriptions[i].status = "canceled"}) = 1

-----------------------------------------------------------------------------
(* Cancellation after repeated checkout deliveries (checked under SpecWebhook) *)

(* the last event processed was a verified customer.subscription.deleted  *)
(* with status 'canceled' for a known customer, and every subscription    *)
(* row of that user carries the event's subscription id                    *)
CanceledOnlySubscription ==
    /\ resp.op = "webhook" /\ resp.status = 200 /\ resp.arg.parsed /\ resp.uid # 0
    /\ resp.arg.ev.type = "customer.subscription.deleted"
    /\ resp.arg.ev.status = "canceled"
    /\ \A i \in SubIdsOf(resp.uid) :
          subscriptions[i].stripe_subscription_id = resp.arg.ev.subscription

(* C25: once a verified customer.subscription.deleted event with status   *)
(* 'canceled' has been processed for the only subscription a user ever    *)
(* had, user_has_active_subscription is false for that user, whatever     *)
(* events came before, repeated checkout deliveries included.              *)
C25_CanceledEndsAccess ==
    CanceledOnlySubscription => ~user_has_active_subscription(resp.uid)

-----------------------------------------------------------------------------
(* Concurrent registrations of one email (checked under SpecRegister) *)

NoSharedEmail == \A i, j \in UserIds : users[i].email = users[j].email => i = j

(* every account has its one session or its registration still running *)
OneCreatorPerEmail ==
    \A u \in UserIds :
        Cardinality({s \in sessions : s.user_id = u})
        + Cardinality({q \in inflight : q.email = users[u].email}) = 1

(* the step is a registration with an acceptable password for an email    *)
(* whose lower-cased form another request has inserted, finished or not    *)
LosesTheRace ==
    /\ resp'.op = "register" /\ inflight \subseteq inflight'
    /\ Len(Strip(resp'.arg.password)) >= MIN_PASSWORD_LEN
    /\ UserByEmail(Lower(Strip(resp'.arg.email))) # {}

(* C26: of two concurrent auth_register requests for the same lower-cased *)
(* email exactly one creates the user row and a session; the other fails  *)
(* with the duplicate-account error (409) and creates nothing; no two     *)
(* user rows ever share an email.                                          *)
C26_OneRegistrationWins ==
    /\ [](NoSharedEmail /\ OneCreatorPerEmail)
    /\ [][LosesTheRace => (resp'.status = 409 /\ UNCHANGED <<tables, nextSession, inflight>>)]_vars

(* a registration was refused with 409 while the request that inserted    *)
(* the same email, written in another case, has not created its session   *)
C26_Witness ==
    /\ resp.op = "register" /\ resp.status = 409
    /\ \E q \in inflight :
          /\ q.email = Lower(Strip(resp.arg.email))
          /\ q.arg.email # resp.arg.email
    /\ sessions = {}

-----------------------------------------------------------------------------
(* Delivery order of checkout and subscription events (checked under SpecWebhook) *)

AccessStatuses == {"active", "trialing"}

(* r is the reply to a verified event of type t *)
VerifiedEvent(r, types) ==
    r.op = "webhook" /\ r.status = 200 /\ r.arg.parsed /\ r.arg.ev.type \in types

SameSubscription(e1, e2) ==
    e1.customer = e2.customer /\ e1.subscription = e2.subscription

(* the step processes the checkout event of user u, who has no            *)
(* subscription row, right after an updated/deleted event for the same    *)
(* customer and subscription                                               *)
ChangeThenCheckout(u) ==
    /\ VerifiedEvent(resp, ChangeTypes)
    /\ VerifiedEvent(resp', {"checkout.session.completed"})
    /\ SameSubscription(resp.arg.ev, resp'.arg.ev)
    /\ resp'.uid = u /\ SubIdsOf(u) = {}

(* the step processes an updated/deleted event right after the checkout   *)
(* event of the same customer and subscription gave user u the only row   *)
CheckoutThenChange(u) ==
    /\ VerifiedEvent(resp, {"checkout.session.completed"})
    /\ VerifiedEvent(resp', ChangeTypes)
    /\ SameSubscription(resp.arg.ev, resp'.arg.ev)
    /\ resp.uid = u /\ Cardinality(SubIdsOf(u)) = 1

(* C27: a checkout.session.completed event and a customer.subscription.   *)
(* updated (or deleted) event for the same customer and subscription,     *)
(* processed in either order, leave user_has_active_subscription equal to *)
(* whether the status of the updated/deleted event is 'active' or         *)
(* 'trialing'.                                                             *)
C27_OrderIndependent ==
    [][\A u \in UserIds :
          /\ ChangeThenCheckout(u)
                => (user_has_active_subscription(u)'
                        = (LowerWord(resp.arg.ev.status) \in AccessStatuses))
          /\ CheckoutThenChange(u)
                => (user_has_active_subscription(u)'
                        = (LowerWord(resp'.arg.ev.status) \in AccessStatuses))]_vars

-----------------------------------------------------------------------------
(* Expired owner sessions (checked under SpecProtected) *)

(* the endpoints that consult is_owner_session *)
OwnerConsultingOps ==
    {"generate", "api_generate", "save_to_canon", "list_canon", "admin_analytics"}

(* C28: on every endpoint that consults is_owner_session (generate,       *)
(* save_to_canon and list_canon through require_access; admin_analytics)  *)
(* a request carrying an expired owner-flagged session is answered 401    *)
(* and its session row is deleted; nothing is granted or written on the   *)
(* strength of the flag.                                                   *)
C28_ExpiredOwnerIs401 ==
    [][\A s \in sessions :
          (/\ resp'.op \in OwnerConsultingOps /\ resp'.tok = s.token
           /\ s.is_owner = 1 /\ SessionExpired(s))
          => (/\ resp'.status = 401
              /\ sessions' = sessions \ {s}
              /\ UNCHANGED <<users, subscriptions, messages, canon_entries,
                             analytics_events>>)]_vars

(* the only session ever created was elevated, then expired, and its      *)
(* request for the analytics was answered 401 and removed the row          *)
C28_Witness ==
    /\ resp.op = "admin_analytics" /\ resp.status = 401 /\ resp.auth = "expired"
    /\ nextSession = 2 /\ resp.tok = 1 /\ sessions = {}
    /\ \E u \in UserIds : users[u].is_owner = 1

====
